---------------------------- MODULE Spec2Model ----------------------------
(***************************************************************************)
(* Trajectory playback engine of the pitch visualizer (balls.js), and the  *)
(* stand-alone page main.js with its own balls, trail and animation loop,  *)
(* the scene singleton of scene.js, and the controls of ui.js that drive   *)
(* the engine.                                                             *)
(*                                                                         *)
(* Numbers.  The program computes with IEEE doubles; the model computes   *)
(* the same expressions exactly, over rationals with fixed denominators:   *)
(*   - clock readings and t0 are counted in clock units of 20 ms;          *)
(*   - the fields of a pitch record (feet, ft/s, ft/s^2) are in tenths;    *)
(*   - a rendered coordinate is a numerator over PosDen, so that           *)
(*     r + v*t + 0.5*a*t*t with t = k/TicksPerSec is the integer           *)
(*     2*T*T*r + 2*T*v*k + a*k*k  over  2*T*T*10;                          *)
(*   - a spin rate is in tenths of a revolution per minute;                *)
(*   - a display speed is in thousandths of a mile per hour; Math.sqrt of  *)
(*     the fallback is taken to the hundredth of a ft/s, rounded down.     *)
(*                                                                         *)
(* For the engine and the page the scene has been built, so getRefs()      *)
(* returns; the meshes the scene holds are those of balls and trailDots,   *)
(* and are not modelled apart.  SpecScene is about the building itself.    *)
(***************************************************************************)
EXTENDS Integers, Sequences, FiniteSets, TLC

VARIABLES
    now,        \* clock.getElapsedTime(), in clock units
    balls,      \* balls.js: let balls = []
    trailDots,  \* balls.js: let trailDots = []
    showTrail,  \* balls.js: let showTrail = false
    frameAt,    \* clock reading of the latest animation frame, -1 before it
    last,       \* the call that produced this state: its name, its id
                \* and pitch arguments, and how many balls, dots and balls
                \* past the boundary plane it found
    twin,       \* a second engine instance, used by the two-run specification
    effects,    \* what the call that produced this state did besides: the
                \* events it emitted on the Bus and, ball by ball, the turn
                \* it gave to ball.rotateOnAxis
    main,       \* main.js, the page that animates by itself: its balls,
                \* trailDots, showTrail and playing, and the zone
                \* checkboxes that are checked
    sampledAt,  \* history of main.js: by id, the clock reading of the latest
                \* trail dot made of the ball of that id now on show, -1 if
                \* none was made
    settled,    \* history of main.js: a frame has run, and no pitch was
                \* spawned or removed and no replay was clicked since
    scene,      \* scene.js: _refs and _raf, the document's canvas, the
                \* animation frame callbacks the browser holds, and how
                \* many scenes were built and frames requested so far
    ui          \* ui.js: the team and pitcher selected, and which zone
                \* checkboxes and master checkboxes are checked

vars ==
    <<now, balls, trailDots, showTrail, frameAt, last, twin, effects, main,
      sampledAt, settled, scene, ui>>

---------------------------------------------------------------------------
(* Bounds of the model *)

MaxBalls == 2
MaxDots == 3
MaxBuilds == 3
MaxHandles == 5

\* Clock readings at which the environment calls into the engine.
Times == {0, 20, 21, 496}

\* Clock units per second (one unit is 20 ms).
TicksPerSec == 1000 \div 20

\* Denominator of a rendered coordinate: 2 * T * T * 10.
PosDen == 2 * TicksPerSec * TicksPerSec * 10

---------------------------------------------------------------------------
(* Inputs *)

\* pitchType arguments ("<pitch type> <zone>")
Ids == {"FF 5", "SL 3"}

\* A value of the field release_speed, by what addBall asks of it:
\* typeof v, isFinite(v), and the number it stands for.
Number(n) == [typeof |-> "number", finite |-> TRUE, val |-> n]
NaN == [typeof |-> "number", finite |-> FALSE, val |-> 0]
Text(n) == [typeof |-> "string", finite |-> TRUE, val |-> n]

\* release (0,6,-54), velocity (0,-2,40), accel (0,-32.2,-5) after addBall's
\* change of axes; neither release_spin_rate nor release_speed
PitchLob ==
    [release_pos_x |-> 0, release_pos_z |-> 60, release_extension |-> 540,
     vx0 |-> 0, vy0 |-> 400, vz0 |-> -20,
     ax |-> 0, ay |-> -50, az |-> -322]

\* the same pitch with release_speed: NaN
PitchLobNaN ==
    [release_pos_x |-> 0, release_pos_z |-> 60, release_extension |-> 540,
     vx0 |-> 0, vy0 |-> 400, vz0 |-> -20,
     ax |-> 0, ay |-> -50, az |-> -322,
     release_speed |-> NaN]

\* the same pitch with release_speed: "31.0", a string
PitchLobText ==
    [release_pos_x |-> 0, release_pos_z |-> 60, release_extension |-> 540,
     vx0 |-> 0, vy0 |-> 400, vz0 |-> -20,
     ax |-> 0, ay |-> -50, az |-> -322,
     release_speed |-> Text(31000)]

\* a Statcast-style record: 4.9 ft extension, -144.8 ft/s towards the
\* plate, +29 ft/s^2 of drag along the flight axis, 98.76 mph, 2345.6 rpm;
\* its z is exactly -60.5 ft 0.4 s after the release
PitchFast ==
    [release_pos_x |-> -15, release_pos_z |-> 60, release_extension |-> 49,
     vx0 |-> 50, vy0 |-> -1448, vz0 |-> -50,
     ax |-> -100, ay |-> 290, az |-> -200,
     release_spin_rate |-> 23456,
     release_speed |-> Number(98760)]

Pitches == {PitchLob, PitchLobNaN, PitchLobText, PitchFast}

\* the argument of animateBalls(delta), in clock units
Deltas == {0, 1}

---------------------------------------------------------------------------
(* Program constants *)

\* if (z <= -60.5) continue;    as a numerator over PosDen
BoundaryZ == (0 - 605) * 2 * TicksPerSec * TicksPerSec

\* if (now - d.t0 > 9.5)        in clock units
TrailLifetime == (95 * TicksPerSec) \div 10

---------------------------------------------------------------------------
(* Helpers *)

\* a slip: the acceleration term without its factor 0.5
Kinematic_noHalf(r, v, a, k) ==
    2 * TicksPerSec * TicksPerSec * r + 2 * TicksPerSec * v * k
        + 2 * a * k * k

\* release.c + velocity.c * t + 0.5 * accel.c * t * t, as a numerator
Kinematic(r, v, a, k) ==
    2 * TicksPerSec * TicksPerSec * r + 2 * TicksPerSec * v * k + a * k * k

\* ball.position.set(release.x, release.y, release.z)
AtRelease(b) == [c \in 1..3 |-> Kinematic(b.release[c], 0, 0, 0)]

\* const z = release.z + velocity.z * t + 0.5 * accel.z * t * t
ComputedZ(b, t) ==
    Kinematic(b.release[3], b.velocity[3], b.accel[3], t - b.t0)

\* a slip: < for <=
Skipped_strict(b, t) == ComputedZ(b, t) < BoundaryZ

\* if (z <= -60.5) continue;
Skipped(b, t) == ComputedZ(b, t) <= BoundaryZ

\* a slip: the displacement added to the rendered position (+=) instead of
\* to the release point
MoveBall_accumulates(b, t) ==
    IF Skipped(b, t) THEN b
    ELSE [b EXCEPT !.pos =
            [c \in 1..3 |->
                 b.pos[c] + Kinematic(0, b.velocity[c], b.accel[c], t - b.t0)]]

\* the body of the loop of animateBalls for one ball
MoveBall(b, t) ==
    IF Skipped(b, t) THEN b
    ELSE [b EXCEPT !.pos =
            [c \in 1..3 |->
                 Kinematic(b.release[c], b.velocity[c], b.accel[c], t - b.t0)]]

\* Math.sqrt(x), rounded down, for 0 <= lo * lo <= x < (hi + 1) * (hi + 1)
RECURSIVE SqrtBetween(_, _, _)
SqrtBetween(x, lo, hi) ==
    IF lo = hi THEN lo
    ELSE LET mid == (lo + hi + 1) \div 2
         IN  IF mid * mid <= x THEN SqrtBetween(x, mid, hi)
                               ELSE SqrtBetween(x, lo, mid - 1)

\* Math.sqrt(vx0**2 + vy0**2 + vz0**2), in hundredths of a ft/s
v3dFtPerS(pitch) ==
    SqrtBetween(100 * (pitch.vx0 * pitch.vx0 + pitch.vy0 * pitch.vy0
                           + pitch.vz0 * pitch.vz0), 0, 46340)

\* v3dFtPerS * 0.681818, in thousandths of a mph
mphFallback(pitch) ==
    LET v == v3dFtPerS(pitch) IN 6 * v + (81818 * v) \div 100000

\* a slip: release_speed is taken whenever the record has the field
mphDisplay_unchecked(pitch) ==
    IF "release_speed" \in DOMAIN pitch
    THEN pitch.release_speed.val
    ELSE mphFallback(pitch)

\* (typeof release_speed === 'number' && isFinite(release_speed))
\*    ? release_speed : mphFallback
mphDisplay(pitch) ==
    IF /\ "release_speed" \in DOMAIN pitch
       /\ pitch.release_speed.typeof = "number"
       /\ pitch.release_speed.finite
    THEN pitch.release_speed.val
    ELSE mphFallback(pitch)

\* pitch.release_spin_rate || 0
spinRate(pitch) ==
    IF "release_spin_rate" \in DOMAIN pitch THEN pitch.release_spin_rate
    ELSE 0

\* trailDots.push({ mesh: dot, t0: now })
DotOf(b, t) == [type |-> b.type, t0 |-> t, pos |-> b.pos]

\* a slip: >= for >, so that a dot aged exactly 9.5 s goes too
Cull_atLifetime(dots, t) ==
    SelectSeq(dots, LAMBDA d : ~(t - d.t0 >= TrailLifetime))

\* trailDots.filter(d => !(now - d.t0 > 9.5))
Cull(dots, t) == SelectSeq(dots, LAMBDA d : ~(t - d.t0 > TrailLifetime))

---------------------------------------------------------------------------
(* The exported functions of balls.js, on an engine                        *)
(* e = [balls, trailDots, showTrail]; t is the clock reading.              *)

\* a slip: the second loop forgotten, so that the trail stays
clearBalls_keepsTrail(e) == [e EXCEPT !.balls = <<>>]

clearBalls(e) == [e EXCEPT !.trailDots = <<>>, !.balls = <<>>]

\* a slip: the flag goes off and the dots stay
setTrailVisible_keepsDots(e, on) == [e EXCEPT !.showTrail = on]

setTrailVisible(e, on) ==
    IF on THEN [e EXCEPT !.showTrail = TRUE]
    ELSE [e EXCEPT !.showTrail = FALSE, !.trailDots = <<>>]

NewBall(pitch, pitchType, t) ==
    LET b == [type     |-> pitchType,
              t0       |-> t,
              mphDisplay |-> mphDisplay(pitch),
              release  |-> <<0 - pitch.release_pos_x, pitch.release_pos_z,
                             0 - pitch.release_extension>>,
              velocity |-> <<0 - pitch.vx0, pitch.vz0, pitch.vy0>>,
              accel    |-> <<0 - pitch.ax, pitch.az, pitch.ay>>,
              spinRate |-> spinRate(pitch)]
    IN  [type |-> b.type, t0 |-> b.t0, mphDisplay |-> b.mphDisplay,
         release |-> b.release, velocity |-> b.velocity, accel |-> b.accel,
         spinRate |-> b.spinRate, pos |-> AtRelease(b)]

addBall(e, pitch, pitchType, t) ==
    [e EXCEPT !.balls = Append(e.balls, NewBall(pitch, pitchType, t))]

\* a slip: only the first ball of that type is taken out (findIndex and
\* splice for filter)
removeBallByType_firstOnly(e, pitchType) ==
    LET at == {i \in 1..Len(e.balls) : e.balls[i].type = pitchType}
        first == CHOOSE i \in at : \A j \in at : i <= j
    IN  IF at = {} THEN e
        ELSE [e EXCEPT
                !.balls = [i \in 1..(Len(e.balls) - 1) |->
                               IF i < first THEN e.balls[i]
                                            ELSE e.balls[i + 1]],
                !.trailDots =
                    SelectSeq(e.trailDots, LAMBDA d : d.type # pitchType)]

\* a slip: the balls go and their dots stay
removeBallByType_keepsTrail(e, pitchType) ==
    [e EXCEPT !.balls = SelectSeq(e.balls, LAMBDA b : b.type # pitchType)]

\* a slip: the whole trail is dropped on every call
removeBallByType_dropsTrail(e, pitchType) ==
    [e EXCEPT
       !.balls = SelectSeq(e.balls, LAMBDA b : b.type # pitchType),
       !.trailDots = <<>>]

removeBallByType(e, pitchType) ==
    LET hit == \E i \in 1..Len(e.balls) : e.balls[i].type = pitchType
    IN  [e EXCEPT
           !.balls = SelectSeq(e.balls, LAMBDA b : b.type # pitchType),
           !.trailDots =
               IF hit
               THEN SelectSeq(e.trailDots, LAMBDA d : d.type # pitchType)
               ELSE e.trailDots]

\* a slip: a ball whose computed z is at or past the plane is left alone
replayAll_skipsPast(e, t) ==
    LET reset(b) == IF Skipped(b, t) THEN b
                    ELSE [b EXCEPT !.t0 = t, !.pos = AtRelease(b)]
        rewound == [i \in 1..Len(e.balls) |-> reset(e.balls[i])]
    IN  setTrailVisible([e EXCEPT !.balls = rewound], e.showTrail)

\* a slip: the trail is emptied by turning it off
replayAll_trailOff(e, t) ==
    LET reset(b) == [b EXCEPT !.t0 = t, !.pos = AtRelease(b)]
        rewound == [i \in 1..Len(e.balls) |-> reset(e.balls[i])]
    IN  setTrailVisible([e EXCEPT !.balls = rewound], FALSE)

replayAll(e, t) ==
    LET reset(b) == [b EXCEPT !.t0 = t, !.pos = AtRelease(b)]
        rewound == [i \in 1..Len(e.balls) |-> reset(e.balls[i])]
    IN  setTrailVisible([e EXCEPT !.balls = rewound], e.showTrail)

\* a slip: the loop pushes dots without looking at showTrail
Dropped_ignoresFlag(e, t) ==
    LET drawn == SelectSeq(e.balls, LAMBDA b : ~Skipped(b, t))
    IN  [i \in 1..Len(drawn) |-> DotOf(MoveBall(drawn[i], t), t)]

\* a slip: the dot is placed before the ball is moved
Dropped_beforeMove(e, t) ==
    LET drawn == SelectSeq(e.balls, LAMBDA b : ~Skipped(b, t))
    IN  IF e.showTrail
        THEN [i \in 1..Len(drawn) |-> DotOf(drawn[i], t)]
        ELSE <<>>

\* the dots the loop of animateBalls pushes, in the order of the balls
Dropped(e, t) ==
    LET drawn == SelectSeq(e.balls, LAMBDA b : ~Skipped(b, t))
    IN  IF e.showTrail
        THEN [i \in 1..Len(drawn) |-> DotOf(MoveBall(drawn[i], t), t)]
        ELSE <<>>

\* a slip: the rotation is applied before the test of z
rotateOnAxis_beforeSkip(e, t, delta) ==
    [i \in 1..Len(e.balls) |->
         IF e.balls[i].spinRate > 0 THEN e.balls[i].spinRate * delta ELSE 0]

\* ball.rotateOnAxis(axis, (spinRate / 60) * 2 * Math.PI * delta), ball by
\* ball: the turn as a numerator over 30000 revolutions, 0 where the loop
\* does not reach the call
rotateOnAxis(e, t, delta) ==
    [i \in 1..Len(e.balls) |->
         IF ~Skipped(e.balls[i], t) /\ e.balls[i].spinRate > 0
         THEN e.balls[i].spinRate * delta
         ELSE 0]

\* +x.toFixed(1), in tenths, of x >= 0 in thousandths
toFixed1(x) == (x + 50) \div 100

\* Math.round(x), of x in tenths
round(x) == (x + 5) \div 10

\* a slip: the summary is of the first ball of the list
frameStats_first(e) ==
    IF e.balls = <<>> THEN <<>>
    ELSE <<[nBalls |-> Len(e.balls),
            last |-> [mph |-> toFixed1(e.balls[1].mphDisplay),
                      spin |-> round(e.balls[1].spinRate)]]>>

\* the 'frameStats' events animateBalls emits, with mph in tenths
frameStats(e) ==
    IF e.balls = <<>> THEN <<>>
    ELSE LET lastBall == e.balls[Len(e.balls)]
         IN  <<[nBalls |-> Len(e.balls),
                last |-> [mph |-> toFixed1(lastBall.mphDisplay),
                          spin |-> round(lastBall.spinRate)]]>>

\* a slip: a ball at or past the plane is taken off the list
animateBalls_dropsPast(e, t) ==
    LET moved == [i \in 1..Len(e.balls) |-> MoveBall(e.balls[i], t)]
    IN  [e EXCEPT !.balls = SelectSeq(moved, LAMBDA b : ~Skipped(b, t)),
                  !.trailDots = Cull(e.trailDots \o Dropped(e, t), t)]

animateBalls(e, t) ==
    LET moved == [i \in 1..Len(e.balls) |-> MoveBall(e.balls[i], t)]
    IN  [e EXCEPT !.balls = moved,
                  !.trailDots = Cull(e.trailDots \o Dropped(e, t), t)]

---------------------------------------------------------------------------
(* main.js.  Clock readings are in clock units, lastTrailAt and duration   *)
(* in milliseconds; _lastT is a numerator over the ball's duration, and a  *)
(* coordinate of a ball of duration d is a numerator over 10 * d.          *)

\* const TRAIL_DROP_MS = 60
TRAIL_DROP_MS == 60

\* const TRAIL_LIFETIME_S = 9.5, in clock units
TRAIL_LIFETIME_S == (95 * TicksPerSec) \div 10

\* now * 1000
Ms(t) == (1000 \div TicksPerSec) * t

\* Clock readings at which the page's handlers and frames run.
MainTimes == {0, 2, 3, 5, 6, 8, 480}

\* data[currentTeam][currentPitcher]: the pitches of the pitcher on show,
\* by "<pitch type> <zone>"; lengths in tenths of a foot, time_to_plate_s
\* in milliseconds
pitcherData ==
    [id \in Ids |->
         IF id = "FF 5"
         THEN [release_pos_x |-> -20, release_pos_y |-> 60,
               release_pos_z |-> -540, time_to_plate_s |-> 100]
         ELSE [release_pos_x |-> 15, release_pos_y |-> 55,
               release_pos_z |-> -540, time_to_plate_s |-> 160,
               plate_x |-> 5, plate_y |-> 20, plate_z |-> -605]]

\* obj[name] ?? dflt
Field(obj, name, dflt) == IF name \in DOMAIN obj THEN obj[name] ELSE dflt

\* Math.max(a, b)
Max(a, b) == IF a >= b THEN a ELSE b

\* Math.min(a, b)
Min(a, b) == IF a <= b THEN a ELSE b

\* Math.min(1, Math.max(0, t)), t a numerator over b.duration
clamp01(b, t) == Min(b.duration, Max(0, t))

\* pathFn(u) of ball b, u a numerator over b.duration: the straight line
\* from the release point to the plate
pathFn(b, u) ==
    [c \in 1..3 |-> b.release[c] * (b.duration - u) + b.plate[c] * u]

clearBallsAndTrails(m) == [m EXCEPT !.balls = <<>>, !.trailDots = <<>>]

removePitch(m, pitchType) ==
    [m EXCEPT
       !.balls = SelectSeq(m.balls, LAMBDA b : b.type # pitchType),
       !.trailDots = SelectSeq(m.trailDots, LAMBDA d : d.type # pitchType)]

spawnPitch(m, pitchType, pitchObj, t) ==
    LET travelS == Field(pitchObj, "time_to_plate_s", 450)
        b == [type |-> pitchType,
              release |-> <<Field(pitchObj, "release_pos_x", -20),
                            Field(pitchObj, "release_pos_y", 60),
                            Field(pitchObj, "release_pos_z", -540)>>,
              plate |-> <<Field(pitchObj, "plate_x", 0),
                          Field(pitchObj, "plate_y", 25),
                          Field(pitchObj, "plate_z", -605)>>,
              startTime |-> t,
              duration |-> Max(150, IF travelS = 0 THEN 450 ELSE travelS),
              lastTrailAt |-> 0,
              lastT |-> 0]
    IN  [m EXCEPT !.balls =
            Append(m.balls,
                   [type |-> b.type, release |-> b.release,
                    plate |-> b.plate, startTime |-> b.startTime,
                    duration |-> b.duration, lastTrailAt |-> b.lastTrailAt,
                    lastT |-> b.lastT, pos |-> pathFn(b, 0)])]

\* the keys of pitcherData in the order addCheckboxes walks them: pitch
\* types in alphabetical order, zones 1 to 9
zoneOrder == <<"FF 5", "SL 3">>

\* addCheckboxes: every zone of pitcherData gets a checked box and a ball;
\* here for the first n of them
RECURSIVE addCheckboxes(_, _, _)
addCheckboxes(m, n, t) ==
    IF n = 0 THEN m
    ELSE spawnPitch([addCheckboxes(m, n - 1, t)
                        EXCEPT !.checked = @ \cup {zoneOrder[n]}],
                    zoneOrder[n], pitcherData[zoneOrder[n]], t)

refreshPitcher(m, t) ==
    addCheckboxes([clearBallsAndTrails(m) EXCEPT !.checked = {}],
                  Len(zoneOrder), t)

\* the change handler of a zone checkbox, the box just flipped
zoneChange(m, id, t) ==
    IF id \in m.checked
    THEN removePitch([m EXCEPT !.checked = @ \ {id}], id)
    ELSE spawnPitch([m EXCEPT !.checked = @ \cup {id}], id, pitcherData[id], t)

\* the change handler of trailToggle
trailToggleChange(m, on) ==
    IF on THEN [m EXCEPT !.showTrail = TRUE]
    ELSE [m EXCEPT !.showTrail = FALSE, !.trailDots = <<>>]

\* a slip: replay also lets every ball drop a dot at once
replayClick_resetsThrottle(m, t) ==
    [m EXCEPT
       !.balls = [i \in 1..Len(m.balls) |->
                      [m.balls[i] EXCEPT !.startTime = t, !.lastT = 0,
                                         !.lastTrailAt = 0]],
       !.trailDots = <<>>]

\* a slip: replay clears the dots only when trailing is off
replayClick_keepsTrail(m, t) ==
    [m EXCEPT
       !.balls = [i \in 1..Len(m.balls) |->
                      [m.balls[i] EXCEPT !.startTime = t, !.lastT = 0]],
       !.trailDots = IF m.showTrail THEN @ ELSE <<>>]

\* the click handler of replayBtn
replayClick(m, t) ==
    [m EXCEPT
       !.balls = [i \in 1..Len(m.balls) |->
                      [m.balls[i] EXCEPT !.startTime = t, !.lastT = 0]],
       !.trailDots = <<>>]

\* the click handler of toggleBtn, and the Space key
toggleClick(m) == [m EXCEPT !.playing = ~m.playing]

\* a slip: while paused the ball is drawn where the clock would have it
NormalisedTime_ignoresPause(m, b, t) == Ms(t - b.startTime)

\* const t = playing ? (now - b.startTime) / b.duration
\*                   : Math.min(1, b._lastT || 0)
NormalisedTime(m, b, t) ==
    IF m.playing THEN Ms(t - b.startTime) ELSE Min(b.duration, b.lastT)

\* a slip: every frame drops a dot while trailing is on
DropsDot_unthrottled(m, b, t) == m.showTrail

\* if (showTrail) ... if (msNow - last >= TRAIL_DROP_MS)
DropsDot(m, b, t) ==
    m.showTrail /\ Ms(t) - b.lastTrailAt >= TRAIL_DROP_MS

\* a slip: a ball that has finished stays at the end of its path
AnimateBall_noLoop(m, b, t) ==
    LET tt == NormalisedTime(m, b, t)
    IN  [b EXCEPT
           !.lastT = tt,
           !.pos = pathFn(b, clamp01(b, tt)),
           !.lastTrailAt = IF DropsDot(m, b, t) THEN Ms(t) ELSE @]

\* the body of the loop of animate for one ball
AnimateBall(m, b, t) ==
    LET tt == NormalisedTime(m, b, t)
    IN  [b EXCEPT
           !.lastT = tt,
           !.pos = pathFn(b, clamp01(b, tt)),
           !.lastTrailAt = IF DropsDot(m, b, t) THEN Ms(t) ELSE @,
           !.startTime = IF tt >= b.duration THEN t ELSE @]

animate(m, t) ==
    LET n == Len(m.balls)
        moved == [i \in 1..n |-> AnimateBall(m, m.balls[i], t)]
        \* for (let i = balls.length - 1; i >= 0; i--)
        walked == [i \in 1..n |-> n + 1 - i]
        dropping == SelectSeq(walked, LAMBDA i : DropsDot(m, m.balls[i], t))
        dots == [k \in 1..Len(dropping) |->
                     [type |-> moved[dropping[k]].type, t0 |-> t,
                      pos |-> moved[dropping[k]].pos]]
    IN  [m EXCEPT
           !.balls = moved,
           !.trailDots =
               SelectSeq(m.trailDots \o dots,
                         LAMBDA d : ~(t - d.t0 > TRAIL_LIFETIME_S))]

---------------------------------------------------------------------------
(* scene.js.  A refs object is named by the number of the _buildScene call *)
(* that made it, a requestAnimationFrame handle by the number of the       *)
(* request; null is 0.  A call gives back the module's state after it,     *)
(* what it returned and whether it threw.                                  *)

\* let _refs = null; let _raf = null; in a document without a canvas
SceneLoaded ==
    [refs |-> 0, raf |-> 0, canvas |-> FALSE, pending |-> {},
     builds |-> 0, handles |-> 0, loop |-> 0]

Returned(s) == [s |-> s, ret |-> s.refs, threw |-> FALSE]

Threw(s) == [s |-> s, ret |-> 0, threw |-> TRUE]

\* _refs = _buildScene(canvas, { useShadows }); return _refs
createScene(s) ==
    Returned([s EXCEPT !.builds = @ + 1, !.refs = s.builds + 1])

\* a slip: getRefs builds whenever it finds a canvas
getRefs_rebuilds(s) ==
    IF s.canvas THEN createScene(s)
    ELSE IF s.refs # 0 THEN Returned(s) ELSE Threw(s)

getRefs(s) ==
    IF s.refs # 0 THEN Returned(s)
    ELSE IF ~s.canvas THEN Threw(s)
    ELSE createScene(s)

\* the arguments initScene is called with: nothing, a canvas element, an
\* options object with or without a canvas and startLoop: true, and a
\* value that is none of these
InitArgs ==
    {[kind |-> "none"], [kind |-> "canvas"], [kind |-> "other"]}
        \cup {[kind |-> "object", canvas |-> c, startLoop |-> l] :
                  c \in BOOLEAN, l \in BOOLEAN}

\* the canvas initScene arrives at is not null
CanvasOf(s, arg) ==
    CASE arg.kind = "none" -> s.canvas
      [] arg.kind = "canvas" -> TRUE
      [] arg.kind = "object" -> arg.canvas \/ s.canvas
      [] OTHER -> FALSE

WantsLoop(arg) == arg.kind = "object" /\ arg.startLoop

\* cancelAnimationFrame(handle)
cancelAnimationFrame(s, handle) ==
    [s EXCEPT !.pending = {p \in @ : p.handle # handle}]

\* _raf = requestAnimationFrame(tick), tick being the loop of refs r
requestTick(s, r) ==
    [s EXCEPT !.handles = @ + 1,
              !.raf = s.handles + 1,
              !.pending = @ \cup {[handle |-> s.handles + 1, loop |-> r]}]

\* a slip: the frame of the loop before is left scheduled
startRenderLoop_noCancel(s) == [requestTick(s, s.refs) EXCEPT !.loop = s.refs]

\* if (startLoop) { if (_raf) cancelAnimationFrame(_raf); ...; tick(); }
startRenderLoop(s) ==
    LET c == IF s.raf # 0 THEN cancelAnimationFrame(s, s.raf) ELSE s
    IN  [requestTick(c, s.refs) EXCEPT !.loop = s.refs]

\* a slip: the loop before is cancelled before the canvas is looked for
initScene_cancelsFirst(s, arg) ==
    LET c == IF WantsLoop(arg) /\ s.raf # 0
             THEN cancelAnimationFrame(s, s.raf) ELSE s
    IN  IF ~CanvasOf(s, arg) THEN Threw(c)
        ELSE IF WantsLoop(arg) THEN Returned(startRenderLoop(createScene(s).s))
        ELSE createScene(s)

initScene(s, arg) ==
    IF ~CanvasOf(s, arg) THEN Threw(s)
    ELSE IF WantsLoop(arg) THEN Returned(startRenderLoop(createScene(s).s))
    ELSE createScene(s)

\* the place of callback p among the callbacks of a frame, run in the
\* order they were requested
Rank(s, p) == Cardinality({q \in s.pending : q.handle <= p.handle})

\* the browser runs the animation frame callbacks it holds: each tick
\* requests the next frame, stores the handle in _raf and renders
runFrame(s) ==
    LET n == Cardinality(s.pending)
    IN  [s EXCEPT
           !.handles = @ + n,
           !.raf = IF n = 0 THEN @ ELSE s.handles + n,
           !.pending = {[handle |-> s.handles + Rank(s, p),
                         loop |-> p.loop] : p \in s.pending}]

---------------------------------------------------------------------------
(* ui.js.  A handler works on the pair of the engine (balls.js) and the    *)
(* controls; a key "FF 5" of a pitcher's data is the pair <<"FF", 5>> that *)
(* key.split(' ') and Number(zoneStr) make of it.                          *)

\* data: the teams in the order of the file
teams == <<"A", "B">>

\* data[team]: the pitchers of a team in the order of the file
pitchersOf(team) == IF team = "A" THEN <<"p1", "p2">> ELSE <<"p3">>

\* data[team][pitcher]: the pitches of a pitcher by key
pitchesOf(team, pitcher) ==
    CASE pitcher = "p1" ->
             (<<"FF", 2>> :> PitchLob) @@ (<<"FF", 5>> :> PitchFast)
                 @@ (<<"SL", 3>> :> PitchLob) @@ (<<"SL", 11>> :> PitchLob)
      [] pitcher = "p2" -> (<<"FF", 5>> :> PitchLob)
      [] OTHER -> (<<"SL", 3>> :> PitchFast)

\* Object.keys(pitchGroups): the pitch types in the order of the data
typeOrder == <<"FF", "SL">>

\* `${type} ${zone}`
combo(k) == k[1] \o " " \o ToString(k[2])

\* the keys that get a zone checkbox: for (zone = 1; zone <= 9; zone++)
\* if (!pitchGroups[type][zone]) continue
zoneKeys(pd) == {k \in DOMAIN pd : k[2] \in 1..9}

\* initControls without parameters in the URL: the first team, its first
\* pitcher, the checkboxes just built
UiLoaded ==
    [team |-> teams[1], pitcher |-> pitchersOf(teams[1])[1],
     boxes |-> {}, masters |-> {}]

\* cb.checked = on
setChecked(x, k, on) ==
    [x EXCEPT !.u.boxes = IF on THEN @ \cup {combo(k)} ELSE @ \ {combo(k)}]

\* the change handler of the zone checkbox of key k
zoneBoxChange(x, pd, k, t) ==
    IF combo(k) \in x.u.boxes
    THEN [x EXCEPT !.e = addBall(@, pd[k], combo(k), t)]
    ELSE [x EXCEPT !.e = removeBallByType(@, combo(k))]

\* a slip: the master dispatches change on a box already in the state
\* it wants
RECURSIVE masterChange_dispatchesAll(_, _, _, _, _, _)
masterChange_dispatchesAll(x, pd, type, want, n, t) ==
    IF n = 0 THEN x
    ELSE LET y == masterChange_dispatchesAll(x, pd, type, want, n - 1, t)
             k == <<type, n>>
         IN  IF k \notin zoneKeys(pd) THEN y
             ELSE zoneBoxChange(setChecked(y, k, want), pd, k, t)

\* the change handler of the master checkbox of a type, over the zone
\* boxes of zones 1 to n: zoneBoxes.forEach(cb => { if (cb.checked !==
\* want) { cb.checked = want; cb.dispatchEvent(new Event('change')) } })
RECURSIVE masterChange(_, _, _, _, _, _)
masterChange(x, pd, type, want, n, t) ==
    IF n = 0 THEN x
    ELSE LET y == masterChange(x, pd, type, want, n - 1, t)
             k == <<type, n>>
         IN  IF k \notin zoneKeys(pd) \/ (combo(k) \in y.u.boxes) = want
             THEN y
             ELSE zoneBoxChange(setChecked(y, k, want), pd, k, t)

\* Clear All over the zone boxes of one type, zones 1 to n
RECURSIVE clearZoneBoxes(_, _, _, _, _)
clearZoneBoxes(x, pd, type, n, t) ==
    IF n = 0 THEN x
    ELSE LET y == clearZoneBoxes(x, pd, type, n - 1, t)
             k == <<type, n>>
         IN  IF k \in zoneKeys(pd) /\ combo(k) \in y.u.boxes
             THEN zoneBoxChange(setChecked(y, k, FALSE), pd, k, t)
             ELSE y

\* Clear All over the checkboxes of one group: the master, then the zones
clearGroup(x, pd, type, t) ==
    LET y == IF type \in x.u.masters
             THEN masterChange([x EXCEPT !.u.masters = @ \ {type}],
                               pd, type, FALSE, 9, t)
             ELSE x
    IN  clearZoneBoxes(y, pd, type, 9, t)

\* the click handler of Clear All, over the first n groups:
\* querySelectorAll('#pitchCheckboxes input[type="checkbox"]').forEach(...)
RECURSIVE clearAllClick(_, _, _, _)
clearAllClick(x, pd, n, t) ==
    IF n = 0 THEN x
    ELSE clearGroup(clearAllClick(x, pd, n - 1, t), pd, typeOrder[n], t)

\* buildPitchCheckboxes: container.innerHTML = '' and new, unchecked boxes
buildPitchCheckboxes(x) == [x EXCEPT !.u.boxes = {}, !.u.masters = {}]

\* the change handler of pitcherSelect
pitcherChange(x, pitcher) ==
    buildPitchCheckboxes([x EXCEPT !.u.pitcher = pitcher,
                                   !.e = clearBalls(@)])

\* the change handler of teamSelect: the list of pitchers is filled again
\* and its first entry is selected
teamChange(x, team) ==
    pitcherChange([x EXCEPT !.u.team = team], pitchersOf(team)[1])

---------------------------------------------------------------------------
(* The engine as a state machine.  Every call reads the shared clock, which *)
(* never runs backwards; an animation frame is later than the frame before. *)

Engine == [balls |-> balls, trailDots |-> trailDots, showTrail |-> showTrail]

NoTwin == [balls |-> <<>>, trailDots |-> <<>>, showTrail |-> FALSE]

NoEffects == [frameStats |-> <<>>, turns |-> <<>>]

\* the page when main() has loaded the data and built the checkboxes
MainLoaded ==
    refreshPitcher([balls |-> <<>>, trailDots |-> <<>>, showTrail |-> FALSE,
                    playing |-> TRUE, checked |-> {}], 0)

NoSample == [id \in Ids |-> -1]

FrameEffects(e, t, delta) ==
    [frameStats |-> frameStats(e), turns |-> rotateOnAxis(e, t, delta)]

\* the pitch argument of a call that takes none
NoPitch == [none |-> TRUE]

Returns(e, op, id, pitch, t) ==
    /\ now' = t
    /\ balls' = e.balls
    /\ trailDots' = e.trailDots
    /\ showTrail' = e.showTrail
    /\ last' = [op |-> op, id |-> id, pitch |-> pitch,
                nBalls |-> Len(balls), nDots |-> Len(trailDots),
                nPast |-> Cardinality({i \in 1..Len(balls) :
                                           Skipped(balls[i], t)})]
    /\ UNCHANGED <<main, sampledAt, settled, scene, ui>>

Init ==
    /\ now = 0
    /\ balls = <<>>
    /\ trailDots = <<>>
    /\ showTrail = FALSE
    /\ frameAt = -1
    /\ last = [op |-> "init", id |-> "", pitch |-> NoPitch,
               nBalls |-> 0, nDots |-> 0, nPast |-> 0]
    /\ twin = NoTwin
    /\ effects = NoEffects
    /\ main = MainLoaded
    /\ sampledAt = NoSample
    /\ settled = FALSE
    /\ scene = SceneLoaded
    /\ ui = UiLoaded

Call(e, op, id, pitch, t) ==
    /\ Returns(e, op, id, pitch, t)
    /\ effects' = NoEffects

ClearBalls ==
    \E t \in Times :
        /\ t >= now
        /\ Call(clearBalls(Engine), "clearBalls", "", NoPitch, t)
        /\ UNCHANGED <<frameAt, twin>>

SetTrailVisible ==
    \E t \in Times, on \in BOOLEAN :
        /\ t >= now
        /\ Call(setTrailVisible(Engine, on),
                IF on THEN "setTrailVisible(true)"
                      ELSE "setTrailVisible(false)", "", NoPitch, t)
        /\ UNCHANGED <<frameAt, twin>>

AddBall ==
    \E t \in Times, pitch \in Pitches, id \in Ids :
        /\ t >= now
        /\ Len(balls) < MaxBalls
        /\ Call(addBall(Engine, pitch, id, t), "addBall", id, pitch, t)
        /\ UNCHANGED <<frameAt, twin>>

RemoveBallByType ==
    \E t \in Times, id \in Ids :
        /\ t >= now
        /\ Call(removeBallByType(Engine, id),
                "removeBallByType", id, NoPitch, t)
        /\ UNCHANGED <<frameAt, twin>>

ReplayAll ==
    \E t \in Times :
        /\ t >= now
        /\ Call(replayAll(Engine, t), "replayAll", "", NoPitch, t)
        /\ UNCHANGED <<frameAt, twin>>

AnimateBalls ==
    \E t \in Times, delta \in Deltas :
        /\ t >= now
        /\ t > frameAt
        /\ Len(animateBalls(Engine, t).trailDots) <= MaxDots
        /\ Returns(animateBalls(Engine, t), "animateBalls", "", NoPitch, t)
        /\ effects' = FrameEffects(Engine, t, delta)
        /\ frameAt' = t
        /\ UNCHANGED twin

Next ==
    \/ ClearBalls
    \/ SetTrailVisible
    \/ AddBall
    \/ RemoveBallByType
    \/ ReplayAll
    \/ AnimateBalls

Spec == Init /\ [][Next]_vars

---------------------------------------------------------------------------
(* Two runs side by side: the engine and its twin get the same addBall     *)
(* calls at the same clock readings, and animation frames of their own.    *)

PairAddBall ==
    \E t \in Times, pitch \in Pitches, id \in Ids :
        /\ t >= now
        /\ Len(balls) < MaxBalls
        /\ Call(addBall(Engine, pitch, id, t), "addBall", id, pitch, t)
        /\ twin' = addBall(twin, pitch, id, t)
        /\ UNCHANGED frameAt

PairTickFirst ==
    \E t \in Times, delta \in Deltas :
        /\ t >= now
        /\ Returns(animateBalls(Engine, t), "animateBalls", "", NoPitch, t)
        /\ effects' = FrameEffects(Engine, t, delta)
        /\ frameAt' = t
        /\ UNCHANGED twin

PairTickSecond ==
    \E t \in Times :
        /\ t >= now
        /\ Call(Engine, "twinAnimateBalls", "", NoPitch, t)
        /\ twin' = animateBalls(twin, t)
        /\ UNCHANGED frameAt

PairTickBoth ==
    \E t \in Times, delta \in Deltas :
        /\ t >= now
        /\ Returns(animateBalls(Engine, t),
                   "bothAnimateBalls", "", NoPitch, t)
        /\ effects' = FrameEffects(Engine, t, delta)
        /\ twin' = animateBalls(twin, t)
        /\ frameAt' = t

NextPair ==
    \/ PairAddBall
    \/ PairTickFirst
    \/ PairTickSecond
    \/ PairTickBoth

SpecPair == Init /\ [][NextPair]_vars

---------------------------------------------------------------------------
(* main.js as a state machine: the page after main() has loaded the data   *)
(* and built the checkboxes, its event handlers, and its animation frames. *)

MainReturns(m, op, id, t) ==
    /\ now' = t
    /\ main' = m
    /\ last' = [op |-> op, id |-> id, pitch |-> NoPitch,
                nBalls |-> Len(main.balls), nDots |-> Len(main.trailDots),
                nPast |-> 0]
    /\ settled' = (\/ op = "animate"
                   \/ settled /\ op \in {"toggleClick", "trailToggleChange"})
    /\ UNCHANGED <<balls, trailDots, showTrail, twin, effects, scene, ui>>

RefreshPitcher ==
    \E t \in MainTimes :
        /\ t >= now
        /\ MainReturns(refreshPitcher(main, t), "refreshPitcher", "", t)
        /\ sampledAt' = NoSample
        /\ UNCHANGED frameAt

ZoneChange ==
    \E t \in MainTimes, id \in Ids :
        /\ t >= now
        /\ MainReturns(zoneChange(main, id, t), "zoneChange", id, t)
        /\ sampledAt' = [sampledAt EXCEPT ![id] = -1]
        /\ UNCHANGED frameAt

TrailToggleChange ==
    \E t \in MainTimes, on \in BOOLEAN :
        /\ t >= now
        /\ on = ~main.showTrail
        /\ MainReturns(trailToggleChange(main, on),
                       "trailToggleChange", "", t)
        /\ UNCHANGED <<frameAt, sampledAt>>

ReplayClick ==
    \E t \in MainTimes :
        /\ t >= now
        /\ MainReturns(replayClick(main, t), "replayClick", "", t)
        /\ UNCHANGED <<frameAt, sampledAt>>

ToggleClick ==
    \E t \in MainTimes :
        /\ t >= now
        /\ MainReturns(toggleClick(main), "toggleClick", "", t)
        /\ UNCHANGED <<frameAt, sampledAt>>

Animate ==
    \E t \in MainTimes :
        /\ t >= now
        /\ t > frameAt
        /\ Len(animate(main, t).trailDots) <= MaxDots
        /\ MainReturns(animate(main, t), "animate", "", t)
        /\ sampledAt' =
               [id \in Ids |->
                    IF \E i \in 1..Len(main.balls) :
                           /\ main.balls[i].type = id
                           /\ DropsDot(main, main.balls[i], t)
                    THEN t ELSE sampledAt[id]]
        /\ frameAt' = t

NextMain ==
    \/ RefreshPitcher
    \/ ZoneChange
    \/ TrailToggleChange
    \/ ReplayClick
    \/ ToggleClick
    \/ Animate

SpecMain == Init /\ [][NextMain]_vars

---------------------------------------------------------------------------
(* scene.js as a state machine: the exported functions are called in any   *)
(* order, the document gains or loses its canvas, and the browser runs the *)
(* animation frames.                                                       *)

\* how many calls have thrown so far, up to two
Throws(l) == IF "throws" \in DOMAIN l THEN l.throws ELSE 0

SceneReturns(r, op, arg, ran) ==
    /\ scene' = r.s
    /\ last' = [op |-> op, arg |-> arg, ret |-> r.ret, threw |-> r.threw,
                was |-> scene, ran |-> ran,
                throws |-> Min(2, Throws(last) + IF r.threw THEN 1 ELSE 0)]
    /\ UNCHANGED <<now, balls, trailDots, showTrail, frameAt, twin, effects,
                   main, sampledAt, settled, ui>>

DocumentChange ==
    SceneReturns(Returned([scene EXCEPT !.canvas = ~@]), "document",
                 [kind |-> "none"], {})

CreateScene ==
    /\ scene.builds < MaxBuilds
    /\ SceneReturns(createScene(scene), "createScene", [kind |-> "none"], {})

GetRefs ==
    /\ scene.builds < MaxBuilds
    /\ SceneReturns(getRefs(scene), "getRefs", [kind |-> "none"], {})

InitScene ==
    \E arg \in InitArgs :
        /\ scene.builds < MaxBuilds
        /\ scene.handles < MaxHandles
        /\ SceneReturns(initScene(scene, arg), "initScene", arg, {})

Frame ==
    /\ scene.pending # {}
    /\ scene.handles + Cardinality(scene.pending) <= MaxHandles
    /\ SceneReturns(Returned(runFrame(scene)), "frame", [kind |-> "none"],
                    {p.loop : p \in scene.pending})

NextScene ==
    \/ DocumentChange
    \/ CreateScene
    \/ GetRefs
    \/ InitScene
    \/ Frame

SpecScene == Init /\ [][NextScene]_vars

---------------------------------------------------------------------------
(* ui.js with the engine as a state machine: the user clicks checkboxes    *)
(* and buttons and changes the selects, and the page's loop calls          *)
(* animateBalls.                                                           *)

UiTimes == {0, 20}

Page == [e |-> Engine, u |-> ui]

\* data[_state.team][_state.pitcher]
pitcherDataOf(u) == pitchesOf(u.team, u.pitcher)

UiReturns(x, op, id, t) ==
    /\ now' = t
    /\ balls' = x.e.balls
    /\ trailDots' = x.e.trailDots
    /\ showTrail' = x.e.showTrail
    /\ ui' = x.u
    /\ last' = [op |-> op, id |-> id, pitch |-> NoPitch,
                nBalls |-> Len(balls), nDots |-> Len(trailDots),
                nPast |-> 0, was |-> ui]
    /\ effects' = NoEffects
    /\ UNCHANGED <<twin, main, sampledAt, settled, scene>>

\* the user clicks a zone checkbox: the box flips and its handler runs
UiZoneClick ==
    \E t \in UiTimes, k \in zoneKeys(pitcherDataOf(ui)) :
        /\ t >= now
        /\ UiReturns(zoneBoxChange(
                         setChecked(Page, k, combo(k) \notin ui.boxes),
                         pitcherDataOf(ui), k, t),
                     "zoneClick", combo(k), t)
        /\ UNCHANGED frameAt

\* the user clicks the master checkbox of a type
UiMasterClick ==
    \E t \in UiTimes, n \in 1..Len(typeOrder) :
        LET type == typeOrder[n]
            want == type \notin ui.masters
            x == [Page EXCEPT
                    !.u.masters = IF want THEN @ \cup {type}
                                          ELSE @ \ {type}]
        IN  /\ t >= now
            /\ \E k \in DOMAIN pitcherDataOf(ui) : k[1] = type
            /\ UiReturns(masterChange(x, pitcherDataOf(ui), type, want, 9, t),
                         "masterClick", type, t)
            /\ UNCHANGED frameAt

UiClearAllClick ==
    \E t \in UiTimes :
        /\ t >= now
        /\ UiReturns(clearAllClick(Page, pitcherDataOf(ui),
                                   Len(typeOrder), t),
                     "clearAllClick", "", t)
        /\ UNCHANGED frameAt

UiPitcherChange ==
    \E t \in UiTimes, i \in 1..Len(pitchersOf(ui.team)) :
        /\ t >= now
        /\ pitchersOf(ui.team)[i] # ui.pitcher
        /\ UiReturns(pitcherChange(Page, pitchersOf(ui.team)[i]),
                     "pitcherChange", "", t)
        /\ UNCHANGED frameAt

UiTeamChange ==
    \E t \in UiTimes, i \in 1..Len(teams) :
        /\ t >= now
        /\ teams[i] # ui.team
        /\ UiReturns(teamChange(Page, teams[i]), "teamChange", "", t)
        /\ UNCHANGED frameAt

UiTrailToggle ==
    \E t \in UiTimes :
        /\ t >= now
        /\ UiReturns([Page EXCEPT !.e = setTrailVisible(@, ~showTrail)],
                     "trailToggle", "", t)
        /\ UNCHANGED frameAt

UiReplayClick ==
    \E t \in UiTimes :
        /\ t >= now
        /\ UiReturns([Page EXCEPT !.e = replayAll(@, t)],
                     "replayClick", "", t)
        /\ UNCHANGED frameAt

UiFrame ==
    \E t \in UiTimes :
        /\ t >= now
        /\ t > frameAt
        /\ Len(animateBalls(Engine, t).trailDots) <= MaxDots
        /\ UiReturns([Page EXCEPT !.e = animateBalls(@, t)], "frame", "", t)
        /\ frameAt' = t

NextUi ==
    \/ UiZoneClick
    \/ UiMasterClick
    \/ UiClearAllClick
    \/ UiPitcherChange
    \/ UiTeamChange
    \/ UiTrailToggle
    \/ UiReplayClick
    \/ UiFrame

SpecUi == Init /\ [][NextUi]_vars

---------------------------------------------------------------------------
(* Properties *)

\* no two balls of the list carry the same id
DistinctIds ==
    \A i, j \in 1..Len(balls) : i # j => balls[i].type # balls[j].type

\* the throttle interval of the trail, 60 ms, in clock units
ThrottleInterval == (60 * TicksPerSec) \div 1000

\* C1: when replayAll() has returned, the trail-sample collection is empty,
\* whatever the trail flag was before the call.
ReplayLeavesNoTrail ==
    last.op = "replayAll" => trailDots = <<>>

\* C2: once a frame has found a ball's computed z at or past the boundary
\* plane, the frames that follow with nothing but time passing in between
\* leave its rendered position unchanged.
PastBoundaryStaysFrozen ==
    [][(last.op = "animateBalls" /\ last'.op = "animateBalls")
         => \A i \in 1..Len(balls) :
                Skipped(balls[i], now) => balls'[i].pos = balls[i].pos]_vars

\* C3: any two trail samples of one projectile were created at least one
\* throttle interval (60 ms) apart.
TrailSamplesThrottled ==
    DistinctIds =>
        \A i, j \in 1..Len(trailDots) :
            (i < j /\ trailDots[i].type = trailDots[j].type)
                => trailDots[j].t0 - trailDots[i].t0 >= ThrottleInterval

\* C4: after any sequence of calls no two active projectiles share an id.
ActiveIdsUnique == DistinctIds

\* C5: after a frame at clock reading now, every ball whose computed z is
\* above the boundary plane is rendered at
\* release + velocity*t + 0.5*accel*t^2 in x, y and z, with t = now - t0;
\* for release (0,6,-54), velocity (0,-2,40), accel (0,-32.2,-5) and
\* t = 0.4 s that is (0, 2.624, -38.4).
FrameRendersKinematicPosition ==
    last.op = "animateBalls" =>
        \A i \in 1..Len(balls) :
            LET b == balls[i]
                k == now - b.t0
                at(c) == 5000 * b.release[c] + 100 * b.velocity[c] * k
                             + b.accel[c] * k * k
            IN  /\ at(3) > -3025000 => \A c \in 1..3 : b.pos[c] = at(c)
                /\ ( /\ b.release = <<0, 60, -540>>
                     /\ b.velocity = <<0, -20, 400>>
                     /\ b.accel = <<0, -322, -50>>
                     /\ k = 20 )
                   => /\ b.pos[1] = 0
                      /\ 1000 * b.pos[2] = 2624 * PosDen
                      /\ 10 * b.pos[3] = (0 - 384) * PosDen

\* C5, reached: the example ball of the specification 0.4 s after its
\* release, just drawn by a frame.
ExampleBallDrawnAfter400ms ==
    /\ last.op = "animateBalls"
    /\ \E i \in 1..Len(balls) :
           /\ balls[i].release = <<0, 60, -540>>
           /\ now - balls[i].t0 = 20
           /\ balls[i].pos = <<0, 131200, -1920000>>

\* C6 as stated: two runs with the same addBall calls at the same clock
\* readings, but frames at different intermediate readings, render every
\* ball at the same position after a frame at the same reading.
TwinRunsRenderAlike ==
    last.op = "bothAnimateBalls" =>
        \A i \in 1..Len(balls) : balls[i].pos = twin.balls[i].pos

\* C6, amended: the two runs render alike every ball whose computed z at
\* that last frame is above the boundary plane.
TwinRunsRenderDrawnBallsAlike ==
    last.op = "bothAnimateBalls" =>
        \A i \in 1..Len(balls) :
            ~Skipped(balls[i], now) => balls[i].pos = twin.balls[i].pos

\* C6, reached: after a common frame one ball is drawn alike in both runs,
\* away from its release point, while another, past the boundary plane, is
\* held where the runs' different earlier frames left it.
TwinRunsDifferOnlyPastBoundary ==
    /\ last.op = "bothAnimateBalls"
    /\ \E i, j \in 1..Len(balls) :
           /\ ~Skipped(balls[i], now)
           /\ balls[i].pos = twin.balls[i].pos
           /\ balls[i].pos # AtRelease(balls[i])
           /\ Skipped(balls[j], now)
           /\ balls[j].pos # twin.balls[j].pos

\* how many entries of the sequence s equal x
Count(s, x) == Cardinality({i \in 1..Len(s) : s[i] = x})

\* C7: removeBallByType(id) leaves no ball and no trail sample of that id,
\* and keeps every ball and every trail sample of another id.
RemoveTakesBallAndItsTrailOnly ==
    [][\A id \in Ids :
         (last'.op = "removeBallByType" /\ last'.id = id) =>
             /\ \A i \in 1..Len(balls') : balls'[i].type # id
             /\ \A i \in 1..Len(trailDots') : trailDots'[i].type # id
             /\ \A i \in 1..Len(balls) :
                    balls[i].type # id
                        => Count(balls', balls[i]) = Count(balls, balls[i])
             /\ \A i \in 1..Len(trailDots) :
                    trailDots[i].type # id
                        => Count(trailDots', trailDots[i])
                               = Count(trailDots, trailDots[i])]_vars

\* C7, reached: a removeBallByType call has taken out a ball and trail
\* samples, and a ball and a trail sample of another id are still there.
RemovedOneKeptAnother ==
    /\ last.op = "removeBallByType"
    /\ last.nBalls > Len(balls)
    /\ last.nDots > Len(trailDots)
    /\ \E i \in 1..Len(balls) : balls[i].type # last.id
    /\ \E i \in 1..Len(trailDots) : trailDots[i].type # last.id

\* C8: removeBallByType(id) with no ball of that id changes neither the
\* balls nor the trail samples nor the trail flag, and a second
\* removeBallByType(id) right after a first changes nothing.
RemoveAbsentChangesNothing ==
    [][/\ \A id \in Ids :
            ( /\ last'.op = "removeBallByType"
              /\ last'.id = id
              /\ \A i \in 1..Len(balls) : balls[i].type # id )
                => UNCHANGED <<balls, trailDots, showTrail>>
       /\ ( /\ last.op = "removeBallByType"
            /\ last'.op = "removeBallByType"
            /\ last'.id = last.id )
              => UNCHANGED <<balls, trailDots, showTrail>>]_vars

\* C8, reached: a removeBallByType call for an id that no ball had, with
\* balls and trail samples of other ids in the engine.
RemovedAbsentId ==
    /\ last.op = "removeBallByType"
    /\ \A i \in 1..Len(balls) : balls[i].type # last.id
    /\ last.nBalls = Len(balls)
    /\ last.nBalls > 0
    /\ last.nDots > 0
    /\ trailDots # <<>>

\* C9: setTrailVisible(false) leaves the trail-sample collection empty, and
\* while the flag is off every call other than setTrailVisible(true), an
\* animation frame included, keeps it off and adds no trail sample.
TrailOffRecordsNothing ==
    [][/\ last'.op = "setTrailVisible(false)"
            => (~showTrail' /\ trailDots' = <<>>)
       /\ (~showTrail /\ last'.op # "setTrailVisible(true)")
            => /\ ~showTrail'
               /\ Len(trailDots') <= Len(trailDots)
               /\ \A i \in 1..Len(trailDots') :
                      \E j \in 1..Len(trailDots) :
                          trailDots[j] = trailDots'[i]]_vars

\* C9, reached: with trailing off, a frame later than a ball's release has
\* drawn that ball away from its release point, and the collection is empty.
FrameDrewWithTrailOff ==
    /\ last.op = "animateBalls"
    /\ ~showTrail
    /\ trailDots = <<>>
    /\ \E i \in 1..Len(balls) :
           /\ ~Skipped(balls[i], now)
           /\ balls[i].pos # AtRelease(balls[i])
           /\ balls[i].t0 < frameAt

\* C10: a frame at clock reading now keeps, in their order, exactly the
\* trail samples with now - t0 <= 9.5 s (475 clock units); whatever else is
\* in the collection afterwards was pushed by this frame.
FrameCullsOlderThanLifetime ==
    [][last'.op = "animateBalls" =>
         LET young == {i \in 1..Len(trailDots) : now' - trailDots[i].t0 <= 475}
             n == Cardinality(young)
         IN  /\ Len(trailDots') >= n
             /\ \A i \in 1..Len(trailDots) :
                    /\ i \in young
                         => Count(SubSeq(trailDots', 1, n), trailDots[i])
                                = Count(trailDots, trailDots[i])
                    /\ i \notin young
                         => Count(trailDots', trailDots[i]) = 0
             /\ \A i \in (n + 1)..Len(trailDots') :
                    trailDots'[i].t0 = now']_vars

\* C10, reached: a frame has removed a trail sample and kept one that is
\* exactly 9.5 s old.
FrameKeptSampleAtLifetime ==
    /\ last.op = "animateBalls"
    /\ \E i \in 1..Len(trailDots) : now - trailDots[i].t0 = 475
    /\ last.nDots > Cardinality({i \in 1..Len(trailDots) :
                                     trailDots[i].t0 < now})

\* C11: when clearBalls() has returned, the list of balls and the list of
\* trail samples are both empty, whatever they held before the call.
ClearEmptiesBallsAndTrail ==
    last.op = "clearBalls" => (balls = <<>> /\ trailDots = <<>>)

\* C11, reached: clearBalls() has returned after finding two balls and at
\* least one trail sample.
ClearedTwoBallsAndTrail ==
    /\ last.op = "clearBalls"
    /\ last.nBalls = 2
    /\ last.nDots >= 1
    /\ balls = <<>>

\* C12: replayAll() gives every ball the current clock reading as t0 and
\* its release point as rendered position, the balls past the boundary
\* plane included; a frame at that same clock reading (t = 0) leaves every
\* ball at its release point.
ReplayRewindsEveryBall ==
    [][/\ last'.op = "replayAll" =>
            /\ Len(balls') = Len(balls)
            /\ \A i \in 1..Len(balls) :
                   /\ balls'[i].t0 = now'
                   /\ \A c \in 1..3 :
                          10 * balls'[i].pos[c]
                              = PosDen * balls[i].release[c]
       /\ (last.op = "replayAll" /\ last'.op = "animateBalls" /\ now' = now)
            => \A i \in 1..Len(balls) :
                   \A c \in 1..3 :
                       10 * balls'[i].pos[c]
                           = PosDen * balls[i].release[c]]_vars

\* C12, reached: replayAll() has returned after finding a ball past the
\* boundary plane, later than every ball's release, and all balls are at
\* their release points with t0 the current clock reading.
ReplayRewoundBallPastBoundary ==
    /\ last.op = "replayAll"
    /\ last.nPast >= 1
    /\ last.nBalls = 2
    /\ \A i \in 1..Len(balls) :
           balls[i].t0 = now /\ balls[i].pos = AtRelease(balls[i])

\* C16: in every reachable state, if the trail flag is off then the
\* collection of trail samples is empty.
TrailOffMeansNoSamples ==
    ~showTrail => trailDots = <<>>

\* C16, reached: setTrailVisible(false) has returned after finding trail
\* samples, with balls still in the engine.
TrailTurnedOffOverSamples ==
    /\ last.op = "setTrailVisible(false)"
    /\ last.nDots >= 1
    /\ balls # <<>>
    /\ ~showTrail

\* what of a ball neither replayAll nor a frame may touch
Identity(b) ==
    [type |-> b.type, release |-> b.release, velocity |-> b.velocity,
     accel |-> b.accel, spinRate |-> b.spinRate,
     mphDisplay |-> b.mphDisplay]

\* C13: replayAll() adds no ball and removes none, and leaves every ball's
\* id, release point, velocity, acceleration, spin rate and display speed,
\* and the trail flag, as they were; of a ball only t0 and the rendered
\* position change.
ReplayKeepsBallsAndFlag ==
    [][last'.op = "replayAll" =>
         /\ Len(balls') = Len(balls)
         /\ \A i \in 1..Len(balls) : Identity(balls'[i]) = Identity(balls[i])
         /\ showTrail' = showTrail]_vars

\* C13, reached: replayAll() has returned with trailing on and two balls in
\* the list, one of which had left a trail sample away from its release
\* point before the call.
ReplayedMovedBallWithTrailOn ==
    /\ last.op = "replayAll"
    /\ showTrail
    /\ Len(balls) = 2
    /\ \E i \in 1..Len(balls), j \in 1..Len(trailDots) :
           /\ trailDots[j].type = balls[i].type
           /\ trailDots[j].t0 < now
           /\ trailDots[j].pos # AtRelease(balls[i])
           /\ balls[i].t0 = now
           /\ balls[i].pos = AtRelease(balls[i])

\* C15: a trail sample is created by a frame, at the position that frame
\* has just rendered its owner at and with the frame's clock reading; from
\* then on no call changes its position, owner id or t0: every sample held
\* after a call is one that was held before it, unless that frame made it.
TrailSamplesImmutable ==
    [][\A j \in 1..Len(trailDots') :
         \/ \E i \in 1..Len(trailDots) : trailDots[i] = trailDots'[j]
         \/ /\ last'.op = "animateBalls"
            /\ trailDots'[j].t0 = now'
            /\ \E i \in 1..Len(balls') :
                   /\ balls'[i].type = trailDots'[j].type
                   /\ balls'[i].pos = trailDots'[j].pos
                   /\ ~Skipped(balls'[i], now')]_vars

\* C15, reached: a frame has just made a trail sample at its owner's
\* position, and an earlier sample of the same owner is still held where
\* the owner was then.
OlderSampleKeptItsPlace ==
    /\ last.op = "animateBalls"
    /\ DistinctIds
    /\ \E i, j \in 1..Len(trailDots), k \in 1..Len(balls) :
           /\ trailDots[i].type = balls[k].type
           /\ trailDots[j].type = balls[k].type
           /\ trailDots[i].t0 < trailDots[j].t0
           /\ trailDots[j].t0 = now
           /\ trailDots[j].pos = balls[k].pos
           /\ trailDots[i].pos # balls[k].pos

\* C17: a frame adds no ball and removes none, and changes no ball's t0,
\* id, release point, velocity, acceleration, spin rate or display speed;
\* a ball at or past the boundary plane stays in the list.
FrameKeepsBalls ==
    [][last'.op = "animateBalls" =>
         /\ Len(balls') = Len(balls)
         /\ \A i \in 1..Len(balls) :
                /\ Identity(balls'[i]) = Identity(balls[i])
                /\ balls'[i].t0 = balls[i].t0]_vars

\* C17, reached: after a frame the list holds a ball the frame has drawn
\* away from its release point and a ball the frame has skipped, past the
\* boundary plane.
FrameKeptBallPastBoundary ==
    /\ last.op = "animateBalls"
    /\ last.nBalls = Len(balls)
    /\ \E i, j \in 1..Len(balls) :
           /\ ~Skipped(balls[i], now)
           /\ balls[i].pos # AtRelease(balls[i])
           /\ Skipped(balls[j], now)
           /\ ComputedZ(balls[j], now) < BoundaryZ

\* the sequence s is what is left of the sequence r when some of its
\* entries are taken out: s from its entry i on, r from its entry j on
RECURSIVE IsSubSeqFrom(_, _, _, _)
IsSubSeqFrom(s, r, i, j) ==
    IF i > Len(s) THEN TRUE
    ELSE IF j > Len(r) THEN FALSE
    ELSE IF s[i] = r[j] THEN IsSubSeqFrom(s, r, i + 1, j + 1)
    ELSE IsSubSeqFrom(s, r, i, j + 1)

IsSubSeq(s, r) == IsSubSeqFrom(s, r, 1, 1)

\* C14 as stated: a frame emits one frameStats event when the list holds a
\* ball and none otherwise; its nBalls is the length of the list and its
\* summary is the stored display speed and the stored spin rate of the
\* last ball of the list.
TelemetryCarriesStoredValues ==
    last.op = "animateBalls" =>
        IF balls = <<>> THEN effects.frameStats = <<>>
        ELSE /\ Len(effects.frameStats) = 1
             /\ effects.frameStats[1].nBalls = Len(balls)
             /\ 100 * effects.frameStats[1].last.mph
                    = balls[Len(balls)].mphDisplay
             /\ 10 * effects.frameStats[1].last.spin
                    = balls[Len(balls)].spinRate

\* C14, amended: a frame emits one frameStats event when the list holds a
\* ball and none otherwise; its nBalls is the length of the list, balls
\* past the boundary plane included, and its summary is the stored display
\* speed rounded to one decimal and the stored spin rate rounded to the
\* nearest integer, of the last ball of the list.  That ball is the one
\* spawned latest among those still there: addBall appends, and no other
\* call adds a ball or changes the order.
TelemetryCarriesRoundedValues ==
    [][/\ last'.op = "animateBalls" =>
            IF balls' = <<>> THEN effects'.frameStats = <<>>
            ELSE LET newest == balls'[Len(balls')]
                     ev == effects'.frameStats[1]
                 IN  /\ Len(effects'.frameStats) = 1
                     /\ ev.nBalls = Len(balls')
                     /\ 100 * ev.last.mph - 50 <= newest.mphDisplay
                     /\ newest.mphDisplay < 100 * ev.last.mph + 50
                     /\ 10 * ev.last.spin - 5 <= newest.spinRate
                     /\ newest.spinRate < 10 * ev.last.spin + 5
       /\ last'.op = "addBall" =>
            /\ Len(balls') = Len(balls) + 1
            /\ SubSeq(balls', 1, Len(balls)) = balls
            /\ balls'[Len(balls')].t0 = now'
       /\ last'.op # "addBall" =>
            IsSubSeq([i \in 1..Len(balls') |-> Identity(balls'[i])],
                     [i \in 1..Len(balls) |-> Identity(balls[i])])]_vars

\* C14, reached: a frame over two balls, the second past the boundary
\* plane, has emitted one event with nBalls = 2 and the rounded speed and
\* spin of the second, which differ from the stored ones and from the
\* first's.
FrameEmittedRoundedSummary ==
    /\ last.op = "animateBalls"
    /\ Len(balls) = 2
    /\ ComputedZ(balls[2], now) < BoundaryZ
    /\ Len(effects.frameStats) = 1
    /\ effects.frameStats[1].nBalls = 2
    /\ 100 * effects.frameStats[1].last.mph # balls[2].mphDisplay
    /\ 10 * effects.frameStats[1].last.spin # balls[2].spinRate
    /\ balls[1].mphDisplay # balls[2].mphDisplay

\* C18 as stated: a frame skips a ball only when its computed z is below
\* -60.5; a ball whose computed z is exactly -60.5 is drawn there.
BallAtBoundaryIsDrawn ==
    [][last'.op = "animateBalls" =>
         \A i \in 1..Len(balls) :
             ComputedZ(balls[i], now') = BoundaryZ
                 => balls'[i].pos[3] = BoundaryZ]_vars

\* C18, amended: a frame skips a ball exactly when its computed z is at or
\* below -60.5; a ball whose computed z is exactly -60.5 keeps the position
\* it had, and a ball whose computed z is above is drawn at that z.
BallAtBoundaryIsSkipped ==
    [][last'.op = "animateBalls" =>
         \A i \in 1..Len(balls) :
             LET z == ComputedZ(balls[i], now')
             IN  /\ z <= BoundaryZ => balls'[i].pos = balls[i].pos
                 /\ z > BoundaryZ => balls'[i].pos[3] = z]_vars

\* C18, reached: a frame has found a ball, released earlier, with computed
\* z exactly -60.5 and has left it at its release point.
FrameFoundBallAtBoundary ==
    /\ last.op = "animateBalls"
    /\ \E i \in 1..Len(balls) :
           /\ balls[i].t0 < now
           /\ ComputedZ(balls[i], now) = BoundaryZ
           /\ balls[i].pos = AtRelease(balls[i])
           /\ balls[i].pos[3] > BoundaryZ

\* C19: addBall adds the ball whether or not the record has the optional
\* fields: without release_spin_rate the ball's spin rate is 0, and no frame
\* turns a ball of spin rate 0; without release_speed, or with one that is
\* not a finite number, the display speed is that of the initial velocity:
\* turned back into ft/s it is within 0.1 ft/s of sqrt(vx0^2+vy0^2+vz0^2).
AddBallToleratesMissingFields ==
    [][/\ last'.op = "addBall" =>
            LET p == last'.pitch
                b == balls'[Len(balls')]
                w == (10000 * b.mphDisplay) \div 681818
                sq == p.vx0 * p.vx0 + p.vy0 * p.vy0 + p.vz0 * p.vz0
                fallback == \/ "release_speed" \notin DOMAIN p
                            \/ p.release_speed.typeof # "number"
                            \/ ~p.release_speed.finite
            IN  /\ Len(balls') = Len(balls) + 1
                /\ b.type = last'.id
                /\ "release_spin_rate" \notin DOMAIN p => b.spinRate = 0
                /\ fallback => /\ (w - 1) * (w - 1) <= sq
                               /\ sq <= (w + 1) * (w + 1)
       /\ last'.op = "animateBalls" =>
            \A i \in 1..Len(balls) :
                balls[i].spinRate = 0 => effects'.turns[i] = 0]_vars

\* C19, reached: a frame with a positive delta has turned one ball and not
\* the other, which came from a record without release_spin_rate and
\* release_speed and carries spin rate 0 and a display speed of 27.3 mph.
FrameLeftSpinlessBallUnturned ==
    /\ last.op = "animateBalls"
    /\ Len(balls) = 2
    /\ \E i, j \in 1..2 :
           /\ balls[i] = [NewBall(PitchLob, balls[i].type, balls[i].t0)
                             EXCEPT !.pos = balls[i].pos]
           /\ balls[i].spinRate = 0
           /\ toFixed1(balls[i].mphDisplay) = 273
           /\ balls[i].pos # AtRelease(balls[i])
           /\ effects.turns[i] = 0
           /\ effects.turns[j] > 0

\* C20: in main.js a frame makes a trail dot of a ball only when at least
\* TRAIL_DROP_MS (60 ms) have passed since the latest dot made of that ball,
\* whatever happened in between (replay, pause and resume, trailing turned
\* off and on); and any two dots held of one ball are at least 60 ms apart.
MainTrailThrottled ==
    [][/\ last'.op = "animate" =>
            \A j \in 1..Len(main'.trailDots) :
                LET d == main'.trailDots[j]
                IN  (d.t0 = now' /\ sampledAt[d.type] # -1)
                        => Ms(now' - sampledAt[d.type]) >= 60
       /\ \A i, j \in 1..Len(main'.trailDots) :
              ( /\ i < j
                /\ main'.trailDots[i].type = main'.trailDots[j].type )
                  => Ms(main'.trailDots[j].t0 - main'.trailDots[i].t0)
                         >= 60]_vars

\* C20, reached: with trailing on, a frame has made no dot of a ball whose
\* latest dot was made less than 60 ms before and is no longer held, the
\* trail having been emptied since by a replay or by turning trailing off.
MainThrottleOutlastsTrail ==
    /\ last.op = "animate"
    /\ main.showTrail
    /\ \E i \in 1..Len(main.balls) :
           LET b == main.balls[i]
           IN  /\ sampledAt[b.type] # -1
               /\ sampledAt[b.type] < now
               /\ Ms(now - sampledAt[b.type]) < 60
               /\ \A j \in 1..Len(main.trailDots) :
                      main.trailDots[j].type # b.type

\* C23: on a frame where a ball's computed z is at or beyond the boundary
\* plane, the frame turns that ball by nothing and makes no trail sample of
\* it, with trailing on and a positive spin rate too: the samples the frame
\* makes of an id are as many as the balls of that id above the plane.
FrameSkipsTrailAndSpinPastBoundary ==
    [][last'.op = "animateBalls" =>
         /\ \A i \in 1..Len(balls) :
                ComputedZ(balls[i], now') <= BoundaryZ
                    => effects'.turns[i] = 0
         /\ \A id \in Ids :
                Cardinality({j \in 1..Len(trailDots') :
                                 /\ trailDots'[j].t0 = now'
                                 /\ trailDots'[j].type = id})
                  = IF showTrail
                    THEN Cardinality({i \in 1..Len(balls) :
                                 /\ balls[i].type = id
                                 /\ ComputedZ(balls[i], now') > BoundaryZ})
                    ELSE 0]_vars

\* C23, reached: with trailing on, a frame with a positive delta has found
\* a ball of positive spin rate beyond the boundary plane and has neither
\* turned it nor made a sample of its id, while it has turned another ball
\* and made a sample of that one.
FramePassedOverSpinningBall ==
    /\ last.op = "animateBalls"
    /\ showTrail
    /\ \E i, j \in 1..Len(balls) :
           /\ ComputedZ(balls[i], now) < BoundaryZ
           /\ balls[i].spinRate > 0
           /\ effects.turns[i] = 0
           /\ \A k \in 1..Len(trailDots) :
                  trailDots[k].type = balls[i].type => trailDots[k].t0 < now
           /\ effects.turns[j] > 0
           /\ \E k \in 1..Len(trailDots) :
                  /\ trailDots[k].type = balls[j].type
                  /\ trailDots[k].t0 = now

\* C26: in every reachable state every trail sample carries the id of a
\* ball that is in the list.
TrailSamplesHaveOwners ==
    \A j \in 1..Len(trailDots) :
        \E i \in 1..Len(balls) : balls[i].type = trailDots[j].type

\* C26, reached: removeBallByType has taken a ball and its trail samples
\* out, and the samples still held are those of the ball that is left.
RemoveTookTrailWithBall ==
    /\ last.op = "removeBallByType"
    /\ last.nBalls = 2
    /\ Len(balls) = 1
    /\ last.nDots > Len(trailDots)
    /\ trailDots # <<>>


\* C21: the replay click of main.js gives every ball the clock reading of
\* the click as its startTime, leaves no trail sample even when trailing is
\* on, and keeps the same balls in the same order and the same checked
\* boxes.
MainReplayRestartsAndClearsTrail ==
    [][last'.op = "replayClick"
         => /\ Len(main'.balls) = Len(main.balls)
            /\ \A i \in 1..Len(main.balls) :
                   /\ main'.balls[i].type = main.balls[i].type
                   /\ main'.balls[i].startTime = now'
            /\ main'.trailDots = <<>>
            /\ main'.checked = main.checked
            /\ main'.showTrail = main.showTrail]_vars

\* a replay click with trailing on took trail samples away and restarted
\* two balls later than they were spawned
MainReplayClearedTrailWhileOn ==
    /\ last.op = "replayClick"
    /\ main.showTrail
    /\ last.nDots >= 1
    /\ main.trailDots = <<>>
    /\ Len(main.balls) = 2
    /\ now > 0
    /\ \A i \in 1..Len(main.balls) : main.balls[i].startTime = now

\* the end of the path of ball b, as a position of the ball
PathEnd(b) == [c \in 1..3 |-> b.plate[c] * b.duration]

\* the coordinate x lies between the coordinates a and b
Between(x, a, b) == (a <= x /\ x <= b) \/ (b <= x /\ x <= a)

\* C22: at a tick of main.js while playing, a ball whose normalised time
\* (now - startTime) / duration is at least 1 is drawn at the end of its
\* path and gets the clock reading of the tick as its startTime, a ball
\* whose normalised time is below 1 keeps its startTime, and every ball is
\* drawn at pathFn of its normalised time, on the path between the release
\* point and the end.
MainLoopRestartsFinishedBall ==
    [][(last'.op = "animate" /\ main.playing)
         => \A i \in 1..Len(main.balls) :
                LET b == main.balls[i]
                    a == main'.balls[i]
                    tt == Ms(now' - b.startTime)
                IN  /\ tt >= b.duration
                         => a.pos = PathEnd(b) /\ a.startTime = now'
                    /\ tt < b.duration
                         => /\ a.startTime = b.startTime
                            /\ a.pos = pathFn(b, tt)
                    /\ \A c \in 1..3 :
                           Between(a.pos[c], b.release[c] * b.duration,
                                   PathEnd(b)[c])]_vars

\* a tick while playing found one ball exactly at normalised time 1 and
\* another beyond it, drew both at the end of their paths and restarted
\* them
MainLoopRestartedBallAtEnd ==
    /\ last.op = "animate"
    /\ main.playing
    /\ Len(main.balls) = 2
    /\ \E i, j \in 1..2 :
           /\ main.balls[i].lastT = main.balls[i].duration
           /\ main.balls[j].lastT > main.balls[j].duration
    /\ \A i \in 1..2 :
           /\ main.balls[i].startTime = now
           /\ main.balls[i].pos = PathEnd(main.balls[i])


\* C24: at a tick of main.js while playing is false, every ball is drawn
\* where the tick before left it, provided no pitch was spawned or removed
\* and no replay was clicked since that tick; the balls are the same ones.
MainPausedTickKeepsPositions ==
    [][(last'.op = "animate" /\ ~main.playing /\ settled)
         => /\ Len(main'.balls) = Len(main.balls)
            /\ \A i \in 1..Len(main.balls) :
                   /\ main'.balls[i].type = main.balls[i].type
                   /\ main'.balls[i].pos = main.balls[i].pos]_vars

\* a paused tick, later than the tick before it, found a ball part of the
\* way along its path and another at the end of its path
MainPausedTickFoundBallMidPath ==
    /\ last.op = "animate"
    /\ ~main.playing
    /\ settled
    /\ now >= 8
    /\ Len(main.balls) = 2
    /\ \E i, j \in 1..2 :
           /\ main.balls[i].lastT > 0
           /\ main.balls[i].lastT < main.balls[i].duration
           /\ main.balls[i].startTime < now
           /\ main.balls[j].pos = PathEnd(main.balls[j])

\* the trail samples main.js holds of the ball of one id
MainDotsOf(id) == SelectSeq(main.trailDots, LAMBDA d : d.type = id)

\* C27: after a tick of main.js no held trail sample is older than
\* TRAIL_LIFETIME_S, and the n samples held of one ball are TRAIL_DROP_MS
\* or more apart, so that (n - 1) * TRAIL_DROP_MS is at most the age of the
\* oldest of them; with 9.5 s and 60 ms that bounds n by 159.
MainTrailBoundedPerBall ==
    last.op = "animate"
        => /\ \A k \in 1..Len(main.trailDots) :
                  now - main.trailDots[k].t0 <= TRAIL_LIFETIME_S
           /\ \A id \in Ids :
                  LET held == MainDotsOf(id)
                  IN  /\ \A j, k \in 1..Len(held) :
                             j < k => Ms(held[k].t0 - held[j].t0)
                                          >= (k - j) * TRAIL_DROP_MS
                      /\ held # <<>>
                             => (Len(held) - 1) * TRAIL_DROP_MS
                                    <= Ms(now - held[1].t0)
           /\ Ms(TRAIL_LIFETIME_S) \div TRAIL_DROP_MS + 1 = 159

\* a tick kept a sample exactly TRAIL_LIFETIME_S old and a later one of
\* the same ball, and dropped a third
MainTickKeptSampleAtLifetime ==
    /\ last.op = "animate"
    /\ \E id \in Ids :
           LET held == MainDotsOf(id)
           IN  /\ Len(held) >= 3
               /\ now - held[1].t0 = TRAIL_LIFETIME_S
               /\ held[Len(held)].t0 = now


\* C28: a getRefs() call that finds cached refs returns them, builds
\* nothing and leaves them cached, so getRefs() builds only while nothing
\* is cached; once refs are cached they are never unset, and they are
\* replaced only by createScene(), called directly or by initScene().
GetRefsBuildsAtMostOnce ==
    [][/\ (last'.op = "getRefs" /\ scene.refs # 0)
            => /\ ~last'.threw
               /\ last'.ret = scene.refs
               /\ scene' = scene
       /\ scene.refs # 0 => scene'.refs # 0
       /\ (scene.refs # 0 /\ scene'.refs # scene.refs)
            => last'.op \in {"createScene", "initScene"}
       /\ scene'.builds # scene.builds
            => /\ scene'.refs = scene'.builds
               /\ scene'.refs # scene.refs]_vars

\* getRefs() returned, without building, the refs createScene() had put in
\* the place of the refs built first
GetRefsReturnedReplacedRefs ==
    /\ last.op = "getRefs"
    /\ last.was.refs = 2
    /\ last.ret = 2
    /\ scene.refs = 2
    /\ scene.builds = 2

\* C29: the browser holds at most one animation frame callback of
\* initScene's render loops, the one whose handle is in _raf and which
\* belongs to the loop started last; a frame runs no callback of a loop
\* started before it.
OneRenderLoopLive ==
    /\ Cardinality(scene.pending) <= 1
    /\ \A p \in scene.pending :
           p.handle = scene.raf /\ p.loop = scene.loop
    /\ last.op = "frame" => last.ran = {scene.loop}

\* a frame ran the callback of the second loop started, and no other
FrameRanOnlyTheLatestLoop ==
    /\ last.op = "frame"
    /\ last.was.loop >= 2
    /\ last.ran = {last.was.loop}
    /\ scene.handles >= 3

\* the call described by l was given a canvas
Provided(l) ==
    \/ l.arg.kind = "canvas"
    \/ l.arg.kind = "object" /\ l.arg.canvas

\* C30: getRefs() with nothing cached and initScene() throw when the
\* document has no canvas and none is provided; a call that throws leaves
\* _refs, _raf and the scheduled frames as they were and builds nothing;
\* with a canvas in the document getRefs() returns the cached refs, and
\* initScene() called with nothing, a canvas or an options object returns
\* newly built refs when a canvas is in the document or provided.
NoCanvasThrowsAndChangesNothing ==
    [][/\ last'.threw
            => /\ last'.op \in {"getRefs", "initScene"}
               /\ scene' = scene
       /\ (last'.op = "getRefs" /\ scene.refs = 0 /\ ~scene.canvas)
            => last'.threw
       /\ (last'.op = "initScene" /\ ~scene.canvas /\ ~Provided(last'))
            => last'.threw
       /\ (last'.op = "getRefs" /\ scene.canvas)
            => /\ ~last'.threw
               /\ last'.ret = scene'.refs
               /\ last'.ret # 0
       /\ (/\ last'.op = "initScene"
           /\ last'.arg.kind # "other"
           /\ scene.canvas \/ Provided(last'))
            => /\ ~last'.threw
               /\ last'.ret = scene'.refs
               /\ last'.ret = scene.builds + 1]_vars

\* initScene({ startLoop: true }) threw for want of a canvas while refs
\* were cached and a render loop was live, after an earlier call had
\* thrown with nothing cached
InitSceneThrewWithLoopLive ==
    /\ last.op = "initScene"
    /\ last.threw
    /\ WantsLoop(last.arg)
    /\ last.throws = 2
    /\ scene.refs # 0
    /\ scene.pending # {}


\* C25: with the ui.js wiring, whatever zone boxes and master boxes were
\* clicked, Clear All was clicked and teams and pitchers were changed,
\* the engine holds exactly one ball for every checked zone checkbox of
\* the pitcher on show and no other ball; right after a pitcher or team
\* change it holds no ball and no trail sample, and no box is checked.
BallsMatchCheckedBoxes ==
    /\ \A k \in zoneKeys(pitcherDataOf(ui)) :
           Cardinality({i \in 1..Len(balls) : balls[i].type = combo(k)})
               = IF combo(k) \in ui.boxes THEN 1 ELSE 0
    /\ Len(balls) = Cardinality(ui.boxes)
    /\ \A i \in 1..Len(balls) : balls[i].type \in ui.boxes
    /\ last.op \in {"pitcherChange", "teamChange"}
           => balls = <<>> /\ trailDots = <<>> /\ ui.boxes = {}

\* a pitcher change took away the three balls of the pitcher before, two
\* of them checked through a master box, and their trail samples
PitcherChangeTookBallsAndTrail ==
    /\ last.op = "pitcherChange"
    /\ last.nBalls = 3
    /\ last.nDots >= 1
    /\ last.was.masters # {}
    /\ Cardinality(last.was.boxes) = 3
    /\ balls = <<>>
    /\ trailDots = <<>>

============================================================================
